---- MODULE Spec2Model ----
(***************************************************************************)
(* Membership status reconciliation of the gym backend                     *)
(* (checkMemberStatus in the member controller) over the members, plans    *)
(* and payments tables of the hosted store, and the REST handlers that     *)
(* write those tables.                                                     *)
(*                                                                         *)
(* Dates.  A stored date is the triple <<year, month, day>> of its ISO     *)
(* text.  A JavaScript Date is an instant [day, ms]: day is the number of  *)
(* days since 2024-01-01 (UTC) and ms is 0 for 00:00:00.000 exactly and 1  *)
(* for any later time of that day.  The process runs in UTC.               *)
(***************************************************************************)
EXTENDS Integers, Sequences, FiniteSets, TLC

VARIABLES
  members,   \* members table: member id -> [gym_id, status, plan_id, plan_end_date,
             \*                              join_date, batch_id]
  payments,  \* payments table: member id -> the member's payment rows
  plans,     \* plans table: plan id -> [gym_id, duration_in_months, price]
  now,       \* the process clock
  run,       \* client -> its latest status-check request (the handler's locals)
  user,      \* req.user of the REST request being served
  served,    \* how many REST requests have been received
  batches,   \* batches table: batch id -> [gym_id]
  attendance, \* attendance table: rows [member_id, date, status, gym_id]
  cron,      \* the locals of the scheduled task
  gym_settings, \* gym_settings table: gym id -> auto_inactive_members
  otpStore,  \* the otpStore map of the auth controller: email -> [otp, timestamp]
  auth,      \* the identity provider: its users and how many ids it has issued
  profiles,  \* users table: rows [id, email, role, gym_id]
  dateNow,   \* Date.now() in minutes
  reply,     \* the latest verifyAndRegister request and its response
  calls      \* requests whose handlers run interleaved: call id -> its locals

\* the state outside the member, payment, plan, batch and attendance handlers
aside == <<cron, gym_settings, otpStore, auth, profiles, dateNow, reply, calls>>

vars == <<members, payments, plans, now, run, user, served, batches, attendance, aside>>

\* the state a status check neither reads nor writes
rest == <<user, served, batches, attendance, aside>>

(***************************************************************************)
(* Bounds of the model.                                                    *)
(***************************************************************************)
\* how many times the clock advances (midnight -> later that day -> next midnight ...)
MaxTicks == 1
\* how many payment rows a member has at most
MaxPayments == 1
\* how many REST requests are received
MaxRequests == 2
\* how many minutes Date.now() advances
MaxMinutes == 15
\* how many verifyAndRegister requests are received
MaxVerifies == 3
\* how many requests each of the concurrent clients sends
MaxCalls == 2

(***************************************************************************)
(* The data the store holds.                                               *)
(***************************************************************************)
Gyms == {"g1", "g2"}
MemberIds == {"m1", "m2", "m3"}
\* the order in which the store lists the rows of the members table
MemberOrder == <<"m1", "m2", "m3">>
GymOf(m) == IF m = "m3" THEN "g2" ELSE "g1"
PlanIds == {"p1", "p2"}
NoPlan == "null"
BatchIds == {"b1"}
NoBatch == "null"
\* join_date of the members that are in the store at the start
JoinedOn == <<2024, 1, 1>>
RunIds == {"r1", "r2"}
\* the client of the requests that come one at a time
Serial == "r1"

StartDate == <<2024, 3, 15>>
PlanEndDates == {<<2024, 1, 31>>, <<2024, 3, 15>>, <<2024, 4, 20>>}

\* a payment row of total_amount 1000 with the given due_amount
Plan(d, due) ==
  [payment_date |-> d, due_amount |-> due, notes |-> "Plan",
   total_amount |-> 1000, amount_paid |-> 1000 - due]
Adm(d, due) ==
  [payment_date |-> d, due_amount |-> due, notes |-> "Admission Fee",
   total_amount |-> 1000, amount_paid |-> 1000 - due]

\* payment histories of a member, in the order the store returns the nested rows
PaymentHistories ==
  { <<>>,
    << Plan(<<2024, 2, 10>>, 0) >>,
    << Plan(<<2024, 2, 10>>, 400) >>,
    << Plan(<<2024, 1, 5>>, 0), Plan(<<2024, 2, 10>>, 400) >>,
    << Plan(<<2024, 1, 5>>, 400), Plan(<<2024, 2, 10>>, 0) >>,
    << Adm(<<2024, 2, 10>>, 0) >>,
    << Adm(<<2024, 2, 10>>, 0), Plan(<<2024, 2, 10>>, 400) >>,
    << Adm(<<2024, 2, 10>>, 400), Plan(<<2024, 2, 10>>, 0) >> }

(***************************************************************************)
(* Calendar: new Date(text), Date.prototype.setMonth, toISOString.         *)
(***************************************************************************)
IsLeap(y) == (y % 4 = 0) /\ ((y % 100 # 0) \/ (y % 400 = 0))

DaysInMonth(y, m) ==
  IF m = 2 THEN (IF IsLeap(y) THEN 29 ELSE 28)
  ELSE IF m \in {4, 6, 9, 11} THEN 30 ELSE 31

RECURSIVE DaysBeforeYear(_)
DaysBeforeYear(y) ==
  IF y <= 2024 THEN 0
  ELSE DaysBeforeYear(y - 1) + (IF IsLeap(y - 1) THEN 366 ELSE 365)

RECURSIVE DaysBeforeMonth(_, _)
DaysBeforeMonth(y, m) ==
  IF m <= 1 THEN 0 ELSE DaysBeforeMonth(y, m - 1) + DaysInMonth(y, m - 1)

\* day number of year y, month m (1..12), day d; d may exceed the month's length
MakeDay(y, m, d) == DaysBeforeYear(y) + DaysBeforeMonth(y, m) + d - 1

\* new Date(text): the instant at 00:00:00.000 UTC of the stored date
ParseDate(s) == [day |-> MakeDay(s[1], s[2], s[3]), ms |-> 0]

RECURSIVE YearOfDay(_, _)
YearOfDay(n, y) ==
  IF n < DaysBeforeYear(y + 1) THEN y ELSE YearOfDay(n, y + 1)

RECURSIVE MonthOfDay(_, _, _)
MonthOfDay(n, y, m) ==
  IF n < DaysBeforeYear(y) + DaysBeforeMonth(y, m) + DaysInMonth(y, m)
  THEN m ELSE MonthOfDay(n, y, m + 1)

\* year, month and day of month of a day number
YearMonthDay(n) ==
  LET y == YearOfDay(n, 2024)
      m == MonthOfDay(n, y, 1)
  IN <<y, m, n - DaysBeforeYear(y) - DaysBeforeMonth(y, m) + 1>>

\* toISOString(): the date part of the ISO text of an instant
ToISOString(t) == YearMonthDay(t.day)

\* date.setMonth(date.getMonth() + k): same day of month, k months on; a day of
\* month the target month does not have runs over into the following month
SetMonth(t, k) ==
  LET ymd == YearMonthDay(t.day)
      mi == (ymd[2] - 1) + k
  IN [day |-> MakeDay(ymd[1] + (mi \div 12), (mi % 12) + 1, ymd[3]), ms |-> t.ms]

\* a < b on Dates (comparison of the time values)
Before(a, b) == a.day < b.day \/ (a.day = b.day /\ a.ms < b.ms)

(***************************************************************************)
(* checkMemberStatus: the per-member evaluation.                           *)
(***************************************************************************)
Undefined == [payment_date |-> <<0, 0, 0>>, due_amount |-> -1, notes |-> "undefined"]

\* mutant: the admission-fee payments are not filtered out
AllPayments(ps) == ps

\* (member.payments || []).filter(p => p.notes !== 'Admission Fee')
PlanPayments(ps) == SelectSeq(ps, LAMBDA p : p.notes # "Admission Fee")

\* the comparator of the sort: b goes before a when b's payment_date is later
Later(b, a) == Before(ParseDate(a.payment_date), ParseDate(b.payment_date))

\* insert p into a list sorted by payment_date descending, after its equals
RECURSIVE InsertPayment(_, _)
InsertPayment(p, s) ==
  IF s = <<>> THEN <<p>>
  ELSE IF Later(p, Head(s)) THEN <<p>> \o s
  ELSE <<Head(s)>> \o InsertPayment(p, Tail(s))

\* mutant: the payments are taken in the order the store returned them
Unsorted(s) == s

\* Array.prototype.sort by payment_date descending (a stable sort)
RECURSIVE SortPayments(_)
SortPayments(s) ==
  IF s = <<>> THEN <<>>
  ELSE InsertPayment(s[Len(s)], SortPayments(SubSeq(s, 1, Len(s) - 1)))

\* planPayments.sort(...)[0]
LatestPayment(ps) ==
  LET sorted == SortPayments(PlanPayments(ps))
  IN IF sorted = <<>> THEN Undefined ELSE sorted[1]

\* planEndDate < today
Expired(member, today) == Before(ParseDate(member.plan_end_date), today)

\* mutant: a member without any plan payment is not taken as unpaid
UnpaidOnlyWithPayment(latestPayment) ==
  latestPayment # Undefined /\ latestPayment.due_amount > 0

\* !latestPayment || latestPayment.due_amount > 0
Unpaid(latestPayment) == latestPayment = Undefined \/ latestPayment.due_amount > 0

\* latestPayment && latestPayment.due_amount === 0
FullyPaid(latestPayment) == latestPayment # Undefined /\ latestPayment.due_amount = 0

\* the branch of the loop body a member takes
Branch(member, today) ==
  LET latestPayment == LatestPayment(member.payments)
  IN IF Expired(member, today)
     THEN IF Unpaid(latestPayment)
          THEN (IF member.status # "inactive" THEN "inactive" ELSE "none")
          ELSE IF FullyPaid(latestPayment) THEN "extend" ELSE "none"
     ELSE IF member.status = "inactive" /\ FullyPaid(latestPayment)
          THEN "reactivate" ELSE "none"

\* mutant: the extension is counted in 30-day months
NewPlanEndDateByDays(member, duration_in_months) ==
  ToISOString([day |-> ParseDate(member.plan_end_date).day + 30 * duration_in_months,
               ms |-> 0])

\* newPlanEndDate.toISOString() of planEndDate moved on by the plan's months
NewPlanEndDate(member, duration_in_months) ==
  ToISOString(SetMonth(ParseDate(member.plan_end_date), duration_in_months))

\* from('plans').select('duration_in_months').eq('id', plan_id).single():
\* the row, or an error when no row has that id
PlanRowFound(plan_id) == plan_id \in DOMAIN plans

\* a plan lookup that failed in the store, or found no row (planError)
PlanError(plan_id, ok) == ~ok \/ ~PlanRowFound(plan_id)

\* mutant: a failed member update ends the loop
BreakAfterUpdateError(i, n) == n + 1

\* the loop index after `continue` on a failed member update; n is members.length
ContinueAfterUpdateError(i, n) == i + 1

\* mutant: planError ends the loop
BreakAfterPlanError(i, n) == n + 1

\* the loop index after `continue` on planError
ContinueAfterPlanError(i, n) == i + 1

\* mutant: membersError is not looked at
IgnoreMembersError(membersError) == "loop"

\* if (membersError) throw membersError, caught by the handler's catch
ListOutcome(membersError) == IF membersError THEN "failed" ELSE "loop"

(***************************************************************************)
(* The requests.                                                           *)
(***************************************************************************)
\* no request is being served, or the request carries no valid token
NoUser == [id |-> "none", role |-> "none", gym_id |-> "none"]

NoResponse == [status |-> 0, success |-> FALSE, totalChecked |-> 0, totalUpdated |-> 0]

IdleRun ==
  [pc |-> "idle", gym_id |-> "none", membersError |-> FALSE, members |-> <<>>,
   today |-> [day |-> 0, ms |-> 0], i |-> 1, duration_in_months |-> 0,
   updatedMembers |-> <<>>, logged |-> {}, repeat |-> FALSE, overlaps |-> FALSE,
   response |-> NoResponse]

\* the scheduled task has not started
IdleCron ==
  [pc |-> "idle", token |-> NoUser, gymsError |-> FALSE, gyms |-> <<>>, k |-> 1,
   visited |-> {}, posted |-> {}]

\* no verifyAndRegister request has been answered
NoReply == [n |-> 0, email |-> "none", otp |-> "none", status |-> 0, message |-> "none"]

CallIds == {"c1", "c2"}

\* no interleaved request has arrived
IdleCall ==
  [n |-> 0, op |-> "none", pc |-> "idle", user |-> NoUser, id |-> "none",
   plan_id |-> "none", status |-> "none", duration_in_months |-> 0, found |-> FALSE,
   response |-> 0]

\* nothing is registered, scheduled or interleaved
Quiet ==
  /\ cron = IdleCron
  /\ gym_settings = [g \in Gyms |-> TRUE]
  /\ otpStore = <<>>
  /\ auth = [users |-> {}, issued |-> 0]
  /\ profiles = {}
  /\ dateNow = 0
  /\ reply = NoReply
  /\ calls = [c \in CallIds |-> IdleCall]

\* mutant: the members of every gym are listed
SelectAllMembers(gym_id) ==
  LET ids == SelectSeq(MemberOrder, LAMBDA m : m \in DOMAIN members)
  IN [k \in 1..Len(ids) |->
        [id |-> ids[k], status |-> members[ids[k]].status,
         plan_id |-> members[ids[k]].plan_id,
         plan_end_date |-> members[ids[k]].plan_end_date,
         payments |-> payments[ids[k]]]]

\* the rows of the caller's gym with their nested payments, in store order
SelectMembers(gym_id) ==
  LET ids == SelectSeq(MemberOrder,
                       LAMBDA m : m \in DOMAIN members /\ members[m].gym_id = gym_id)
  IN [k \in 1..Len(ids) |->
        [id |-> ids[k], status |-> members[ids[k]].status,
         plan_id |-> members[ids[k]].plan_id,
         plan_end_date |-> members[ids[k]].plan_end_date,
         payments |-> payments[ids[k]]]]

\* the member the loop is at
Current(r) == run[r].members[run[r].i]

InLoop(r) == run[r].pc = "loop" /\ run[r].i <= Len(run[r].members)

\* the request of client r is being served
Busy(r) == run[r].pc \in {"loop", "extend"}

\* no request of another client is being served
Alone(r) == \A q \in RunIds \ {r} : ~Busy(q)

\* a request of another client is being served
Overlaps(r) == \E q \in RunIds \ {r} : Busy(q)

\* the request follows, at the same instant and for the same gym, a sweep of this
\* client that completed without a store error
Repeats(r, gym_id) ==
  /\ run[r].pc = "done"
  /\ run[r].logged = {}
  /\ run[r].gym_id = gym_id
  /\ run[r].today = now

Init ==
  /\ members \in [MemberIds -> [gym_id : Gyms, status : {"active", "inactive"},
                                plan_id : PlanIds \cup {NoPlan},
                                plan_end_date : PlanEndDates,
                                join_date : {JoinedOn}, batch_id : {NoBatch}]]
  /\ \A m \in MemberIds : members[m].gym_id = GymOf(m)
  /\ members["m3"] = [gym_id |-> "g2", status |-> "inactive", plan_id |-> "p2",
                      plan_end_date |-> <<2024, 1, 31>>,
                      join_date |-> JoinedOn, batch_id |-> NoBatch]
  /\ payments \in [MemberIds -> PaymentHistories]
  /\ payments["m3"] = <<>>
  /\ plans = [p \in PlanIds |->
                IF p = "p1" THEN [gym_id |-> "g1", duration_in_months |-> 1, price |-> 1000]
                ELSE [gym_id |-> "g2", duration_in_months |-> 3, price |-> 1000]]
  /\ \A m \in MemberIds :
       IF members[m].plan_id = NoPlan THEN TRUE
       ELSE plans[members[m].plan_id].gym_id = members[m].gym_id
  /\ now = ParseDate(StartDate)
  /\ run = [r \in RunIds |-> IdleRun]
  /\ user = NoUser
  /\ served = 0
  /\ batches = [b \in BatchIds |-> [gym_id |-> "g1"]]
  /\ attendance = {}
  /\ Quiet

\* the select of the members of req.user.gym_id, then today = new Date()
ListMembers(r, gym_id, ok) ==
  /\ ~Busy(r)
  /\ LET membersError == ~ok
         data == IF ok THEN SelectMembers(gym_id) ELSE <<>>
     IN run' = [run EXCEPT ![r] =
          IF ListOutcome(membersError) = "loop"
          THEN [IdleRun EXCEPT !.pc = "loop", !.gym_id = gym_id,
                  !.membersError = membersError, !.members = data, !.today = now,
                  !.repeat = Repeats(r, gym_id), !.overlaps = Overlaps(r)]
          ELSE [IdleRun EXCEPT !.pc = "failed", !.gym_id = gym_id,
                  !.membersError = membersError,
                  !.response = [NoResponse EXCEPT !.status = 500]]]
  /\ UNCHANGED <<members, payments, plans, now, rest>>

\* the loop body of a member that needs no write
NoChange(r) ==
  /\ InLoop(r)
  /\ Branch(Current(r), run[r].today) = "none"
  /\ run' = [run EXCEPT ![r].i = @ + 1]
  /\ UNCHANGED <<members, payments, plans, now, rest>>

\* update({ status: 'inactive' }).eq('id', member.id)
SetInactive(r, ok) ==
  /\ InLoop(r)
  /\ Branch(Current(r), run[r].today) = "inactive"
  /\ LET member == Current(r) IN
       IF ok
       THEN /\ members' = [members EXCEPT ![member.id].status = "inactive"]
            /\ run' = [run EXCEPT ![r].i = @ + 1,
                 ![r].updatedMembers = Append(@, [id |-> member.id,
                    reason |-> "Plan expired with unpaid dues, set to inactive",
                    new_plan_end_date |-> <<>>])]
       ELSE /\ members' = members
            /\ run' = [run EXCEPT ![r].i = ContinueAfterUpdateError(@, Len(run[r].members)),
                                  ![r].logged = @ \cup {member.id}]
  /\ UNCHANGED <<payments, plans, now, rest>>

\* the select of the plan's duration_in_months
FetchPlan(r, ok) ==
  /\ InLoop(r)
  /\ Branch(Current(r), run[r].today) = "extend"
  /\ LET member == Current(r) IN
       IF ~PlanError(member.plan_id, ok)
       THEN IF plans[member.plan_id].duration_in_months # 0
            THEN run' = [run EXCEPT ![r].pc = "extend",
                   ![r].duration_in_months = plans[member.plan_id].duration_in_months]
            ELSE run' = [run EXCEPT ![r].i = @ + 1]
       ELSE run' = [run EXCEPT ![r].i = ContinueAfterPlanError(@, Len(run[r].members)),
                               ![r].logged = @ \cup {member.id}]
  /\ UNCHANGED <<members, payments, plans, now, rest>>

\* mutant: the extension uses up the payment that paid for it
ExtendPlanUsingPayment(r, ok) ==
  /\ run[r].pc = "extend"
  /\ LET member == Current(r)
         newPlanEndDate == NewPlanEndDate(member, run[r].duration_in_months)
     IN IF ok
        THEN /\ members' = [members EXCEPT ![member.id].plan_end_date = newPlanEndDate,
                                           ![member.id].status = "active"]
             /\ payments' = [payments EXCEPT ![member.id] = <<>>]
             /\ run' = [run EXCEPT ![r].pc = "loop", ![r].i = @ + 1,
                  ![r].duration_in_months = 0,
                  ![r].updatedMembers = Append(@, [id |-> member.id,
                     reason |-> "Plan extended after full payment, set to active",
                     new_plan_end_date |-> newPlanEndDate])]
        ELSE /\ UNCHANGED <<members, payments>>
             /\ run' = [run EXCEPT ![r].pc = "loop",
                  ![r].i = ContinueAfterUpdateError(@, Len(run[r].members)),
                  ![r].duration_in_months = 0,
                  ![r].logged = @ \cup {member.id}]
  /\ UNCHANGED <<plans, now, rest>>

\* mutant: the extension writes plan_end_date and leaves status to a later update
ExtendPlanDateOnly(r, ok) ==
  /\ run[r].pc = "extend"
  /\ LET member == Current(r)
         newPlanEndDate == NewPlanEndDate(member, run[r].duration_in_months)
     IN IF ok
        THEN /\ members' = [members EXCEPT ![member.id].plan_end_date = newPlanEndDate]
             /\ run' = [run EXCEPT ![r].pc = "loop", ![r].i = @ + 1,
                  ![r].duration_in_months = 0,
                  ![r].updatedMembers = Append(@, [id |-> member.id,
                     reason |-> "Plan extended after full payment, set to active",
                     new_plan_end_date |-> newPlanEndDate])]
        ELSE /\ members' = members
             /\ run' = [run EXCEPT ![r].pc = "loop",
                  ![r].i = ContinueAfterUpdateError(@, Len(run[r].members)),
                  ![r].duration_in_months = 0,
                  ![r].logged = @ \cup {member.id}]
  /\ UNCHANGED <<payments, plans, now, rest>>

\* update({ plan_end_date: newPlanEndDate.toISOString(), status: 'active' })
ExtendPlan(r, ok) ==
  /\ run[r].pc = "extend"
  /\ LET member == Current(r)
         newPlanEndDate == NewPlanEndDate(member, run[r].duration_in_months)
     IN IF ok
        THEN /\ members' = [members EXCEPT ![member.id].plan_end_date = newPlanEndDate,
                                           ![member.id].status = "active"]
             /\ run' = [run EXCEPT ![r].pc = "loop", ![r].i = @ + 1,
                  ![r].duration_in_months = 0,
                  ![r].updatedMembers = Append(@, [id |-> member.id,
                     reason |-> "Plan extended after full payment, set to active",
                     new_plan_end_date |-> newPlanEndDate])]
        ELSE /\ members' = members
             /\ run' = [run EXCEPT ![r].pc = "loop",
                  ![r].i = ContinueAfterUpdateError(@, Len(run[r].members)),
                  ![r].duration_in_months = 0,
                  ![r].logged = @ \cup {member.id}]
  /\ UNCHANGED <<payments, plans, now, rest>>

\* update({ status: 'active' }).eq('id', member.id)
Reactivate(r, ok) ==
  /\ InLoop(r)
  /\ Branch(Current(r), run[r].today) = "reactivate"
  /\ LET member == Current(r) IN
       IF ok
       THEN /\ members' = [members EXCEPT ![member.id].status = "active"]
            /\ run' = [run EXCEPT ![r].i = @ + 1,
                 ![r].updatedMembers = Append(@, [id |-> member.id,
                    reason |-> "All dues paid and plan valid, set to active",
                    new_plan_end_date |-> <<>>])]
       ELSE /\ members' = members
            /\ run' = [run EXCEPT ![r].i = ContinueAfterUpdateError(@, Len(run[r].members)),
                                  ![r].logged = @ \cup {member.id}]
  /\ UNCHANGED <<payments, plans, now, rest>>

\* mutant: totalChecked counts the members that were updated
SummaryOfUpdated(listed, updatedMembers) ==
  [status |-> 200, success |-> TRUE,
   totalChecked |-> Len(updatedMembers), totalUpdated |-> Len(updatedMembers)]

\* { updatedMembers, totalChecked: members.length, totalUpdated: updatedMembers.length }
Summary(listed, updatedMembers) ==
  [status |-> 200, success |-> TRUE,
   totalChecked |-> Len(listed), totalUpdated |-> Len(updatedMembers)]

\* res.json({ success: true, data: { updatedMembers, totalChecked, totalUpdated } })
Respond(r) ==
  /\ run[r].pc = "loop"
  /\ run[r].i > Len(run[r].members)
  /\ run' = [run EXCEPT ![r].pc = "done",
       ![r].response = Summary(run[r].members, run[r].updatedMembers)]
  /\ UNCHANGED <<members, payments, plans, now, rest>>

\* the process clock moves on: from midnight to later that day, then to the next midnight
Elapsed == 2 * (now.day - ParseDate(StartDate).day) + now.ms

Tick ==
  /\ Elapsed < MaxTicks
  /\ now' = IF now.ms = 0 THEN [now EXCEPT !.ms = 1] ELSE [day |-> now.day + 1, ms |-> 0]
  /\ UNCHANGED <<members, payments, plans, run, rest>>

\* one request at a time
Next ==
  \/ \E g \in Gyms, ok \in BOOLEAN : Alone(Serial) /\ ListMembers(Serial, g, ok)
  \/ NoChange(Serial)
  \/ \E ok \in BOOLEAN : SetInactive(Serial, ok)
  \/ \E ok \in BOOLEAN : FetchPlan(Serial, ok)
  \/ \E ok \in BOOLEAN : ExtendPlan(Serial, ok)
  \/ \E ok \in BOOLEAN : Reactivate(Serial, ok)
  \/ Respond(Serial)
  \/ Tick

Spec == Init /\ [][Next]_vars

(***************************************************************************)
(* Two status checks of one gym served at the same time: each client sends *)
(* one request, the second while the first is being served, and nothing    *)
(* else writes to the store.                                               *)
(***************************************************************************)
ConcGym == "g1"

InitConc ==
  /\ Init
  /\ members["m2"] = [gym_id |-> "g1", status |-> "inactive", plan_id |-> "p1",
                      plan_end_date |-> <<2024, 1, 31>>,
                      join_date |-> JoinedOn, batch_id |-> NoBatch]
  /\ payments["m2"] = << Plan(<<2024, 2, 10>>, 0) >>

\* the request of client r arrives before the request of the other client is answered
Arrive(r, ok) ==
  /\ run[r].pc = "idle"
  /\ \A q \in RunIds \ {r} : run[q].pc = "idle" \/ Busy(q)
  /\ ListMembers(r, ConcGym, ok)

NextConc ==
  \/ \E r \in RunIds, ok \in BOOLEAN : Arrive(r, ok)
  \/ \E r \in RunIds : NoChange(r)
  \/ \E r \in RunIds, ok \in BOOLEAN : SetInactive(r, ok)
  \/ \E r \in RunIds, ok \in BOOLEAN : FetchPlan(r, ok)
  \/ \E r \in RunIds, ok \in BOOLEAN : ExtendPlan(r, ok)
  \/ \E r \in RunIds, ok \in BOOLEAN : Reactivate(r, ok)
  \/ \E r \in RunIds : Respond(r)

SpecConc == InitConc /\ [][NextConc]_vars

(***************************************************************************)
(* The REST handlers that write the members, payments, plans, batches and  *)
(* attendance tables, behind their routes.  One request is served at a     *)
(* time: authenticate sets req.user, then the route's handler runs.        *)
(***************************************************************************)
ROLES == [ADMIN |-> "admin", STAFF |-> "staff", TRAINER |-> "trainer"]

\* the rows of the users table: the users of gym g1 (the members, plans and
\* payments of gym g2 are what their requests must not reach)
Users ==
  { [id |-> "u1", role |-> ROLES.ADMIN, gym_id |-> "g1"],
    [id |-> "u2", role |-> ROLES.STAFF, gym_id |-> "g1"],
    [id |-> "u3", role |-> ROLES.TRAINER, gym_id |-> "g1"] }

\* what requests carry
NoDate == <<0, 0, 0>>
Durations == {1, 3}
NewPlanIds == {"p3"}
PaymentDate == <<2024, 2, 10>>
\* <<amount_paid, total_amount>>: settled, part paid, overpaid
Amounts == {<<1000, 1000>>, <<600, 1000>>, <<1200, 1000>>}

\* a field the request body does not have
Absent == "undefined"

Body(plan_id, joinDate, status, batch_id, admission_fees, amount_paid) ==
  [plan_id |-> plan_id, joinDate |-> joinDate, status |-> status, batch_id |-> batch_id,
   admission_fees |-> admission_fees, amount_paid |-> amount_paid]

\* the bodies of POST and PUT /api/members
MemberBodies ==
  { Body("p1", <<2024, 1, 31>>, "active", NoBatch, 0, 0),
    Body("p1", <<2024, 1, 31>>, "inactive", "b1", 500, 2000),
    Body("p1", <<2024, 3, 15>>, "active", NoBatch, 500, 0),
    Body("p2", <<2024, 1, 31>>, "active", NoBatch, 0, 0),
    Body("p1", NoDate, "active", NoBatch, 500, 2000),
    Body(NoPlan, <<2024, 1, 31>>, "inactive", NoBatch, 0, 0),
    Body(Absent, NoDate, "active", "b1", 0, 0),
    Body(Absent, <<2024, 3, 15>>, "inactive", NoBatch, 0, 0) }

\* the bodies of POST and PUT /api/payments
PaymentBodies == [amounts : Amounts, notes : {"Plan", "Admission Fee"}]

\* mutant: the due amount is the plain difference
calculateDueAmountSigned(totalAmount, amountPaid) == totalAmount - amountPaid

\* Math.max(0, totalAmount - amountPaid)
calculateDueAmount(totalAmount, amountPaid) ==
  IF 0 > totalAmount - amountPaid THEN 0 ELSE totalAmount - amountPaid

\* mutant: the end date is counted in 30-day months from the join date
planEndDateByDays(joinDate, duration_in_months) ==
  ToISOString([day |-> ParseDate(joinDate).day + 30 * duration_in_months, ms |-> 0])

\* planEndDate = new Date(joinDate); planEndDate.setMonth(getMonth() + duration)
planEndDate(joinDate, duration_in_months) ==
  ToISOString(SetMonth(ParseDate(joinDate), duration_in_months))

\* authenticate: a valid token gives req.user, any other request is answered 401
Authenticate(u) ==
  /\ ~Busy(Serial)
  /\ served < MaxRequests
  /\ served' = served + 1
  /\ user' = u
  /\ UNCHANGED <<members, payments, plans, now, run, batches, attendance, aside>>

\* checkRole(allowedRoles), after authenticate
checkRole(allowedRoles) == user # NoUser /\ user.role \in allowedRoles

\* the handler of a route behind checkRole(allowedRoles) is entered
Serving(allowedRoles) == ~Busy(Serial) /\ checkRole(allowedRoles)

\* POST /check-status: authenticate, then checkMemberStatus
CheckStatus(ok) ==
  /\ user # NoUser
  /\ Alone(Serial)
  /\ ListMembers(Serial, user.gym_id, ok)

\* .eq('id', id).eq('gym_id', gym_id).single() on the members, plans, batches tables
MemberFound(id, gym_id) == id \in DOMAIN members /\ members[id].gym_id = gym_id
PlanFound(id, gym_id) == id \in DOMAIN plans /\ plans[id].gym_id = gym_id
BatchFound(id, gym_id) == id \in DOMAIN batches /\ batches[id].gym_id = gym_id

\* the 'Admission Fee' payment that createMember and updateMember write
AdmissionPayment(b, plan_price) ==
  LET total == b.admission_fees + plan_price
      due == total - b.amount_paid
  IN [payment_date |-> ToISOString(now), due_amount |-> IF due > 0 THEN due ELSE 0,
      notes |-> "Admission Fee", total_amount |-> total, amount_paid |-> b.amount_paid]

\* the indexes of the member's payments with notes 'Admission Fee'
AdmissionRows(id) == {k \in 1..Len(payments[id]) : payments[id][k].notes = "Admission Fee"}

\* POST /api/members
createMember(id, b, ok, okPayment) ==
  /\ Serving({ROLES.ADMIN, ROLES.STAFF})
  /\ id \notin DOMAIN members
  /\ IF /\ PlanFound(b.plan_id, user.gym_id)
        /\ (b.batch_id = NoBatch \/ BatchFound(b.batch_id, user.gym_id))
        /\ b.joinDate # NoDate
        /\ ok
     THEN /\ members' =
               [m \in DOMAIN members \cup {id} |->
                  IF m = id
                  THEN [gym_id |-> user.gym_id, status |-> b.status, plan_id |-> b.plan_id,
                        plan_end_date |->
                          planEndDate(b.joinDate, plans[b.plan_id].duration_in_months),
                        join_date |-> ToISOString(ParseDate(b.joinDate)),
                        batch_id |-> b.batch_id]
                  ELSE members[m]]
          /\ payments' =
               IF b.admission_fees > 0 /\ okPayment
               THEN [payments EXCEPT ![id] =
                       Append(@, AdmissionPayment(b, plans[b.plan_id].price))]
               ELSE payments
     ELSE UNCHANGED <<members, payments>>
  /\ user' = NoUser
  /\ UNCHANGED <<served, plans, now, run, batches, attendance, aside>>

\* PUT /api/members/:id
updateMember(id, b, ok, okPayment) ==
  /\ Serving({ROLES.ADMIN, ROLES.STAFF})
  /\ LET planGiven == b.plan_id \notin {NoPlan, Absent}
         rewrite == b.admission_fees > 0 /\ planGiven /\ b.amount_paid > 0 /\ okPayment
         single == Cardinality(AdmissionRows(id)) = 1
     IN IF /\ MemberFound(id, user.gym_id)
           /\ (b.batch_id = NoBatch \/ BatchFound(b.batch_id, user.gym_id))
           /\ (planGiven => PlanFound(b.plan_id, user.gym_id))
           /\ ok
        THEN /\ (rewrite /\ ~single) => Len(payments[id]) < MaxPayments
             /\ members' = [members EXCEPT
                  ![id].status = b.status,
                  ![id].batch_id = b.batch_id,
                  ![id].plan_id = IF b.plan_id = Absent THEN @ ELSE b.plan_id,
                  ![id].join_date =
                     IF b.joinDate = NoDate THEN @ ELSE ToISOString(ParseDate(b.joinDate)),
                  ![id].plan_end_date =
                     IF b.joinDate # NoDate /\ planGiven
                     THEN planEndDate(b.joinDate, plans[b.plan_id].duration_in_months)
                     ELSE @]
             /\ payments' =
                  IF ~rewrite THEN payments
                  ELSE LET p == AdmissionPayment(b, plans[b.plan_id].price) IN
                       IF single
                       THEN LET k == CHOOSE j \in AdmissionRows(id) : TRUE IN
                            [payments EXCEPT ![id][k].amount_paid = p.amount_paid,
                                             ![id][k].total_amount = p.total_amount,
                                             ![id][k].due_amount = p.due_amount]
                       ELSE [payments EXCEPT ![id] = Append(@, p)]
        ELSE UNCHANGED <<members, payments>>
  /\ user' = NoUser
  /\ UNCHANGED <<served, plans, now, run, batches, attendance, aside>>

\* DELETE /api/members/:id; the member's payments and attendance go with it
deleteMember(id, ok) ==
  /\ Serving({ROLES.ADMIN})
  /\ IF MemberFound(id, user.gym_id) /\ ok
     THEN /\ members' = [m \in DOMAIN members \ {id} |-> members[m]]
          /\ payments' = [payments EXCEPT ![id] = <<>>]
          /\ attendance' = {a \in attendance : a.member_id # id}
     ELSE UNCHANGED <<members, payments, attendance>>
  /\ user' = NoUser
  /\ UNCHANGED <<served, plans, now, run, batches, aside>>

\* the payment row that createPayment inserts and updatePayment writes
PaymentRow(b) ==
  [payment_date |-> PaymentDate,
   due_amount |-> calculateDueAmount(b.amounts[2], b.amounts[1]),
   notes |-> b.notes, total_amount |-> b.amounts[2], amount_paid |-> b.amounts[1]]

\* mutant: a payment that settles the dues sets the member active
createPaymentActivating(member_id, b, ok) ==
  /\ Serving({ROLES.ADMIN, ROLES.STAFF})
  /\ Len(payments[member_id]) < MaxPayments
  /\ IF MemberFound(member_id, user.gym_id) /\ ok
     THEN /\ payments' = [payments EXCEPT ![member_id] = Append(@, PaymentRow(b))]
          /\ members' = IF PaymentRow(b).due_amount = 0
                        THEN [members EXCEPT ![member_id].status = "active"]
                        ELSE members
     ELSE UNCHANGED <<payments, members>>
  /\ user' = NoUser
  /\ UNCHANGED <<served, plans, now, run, batches, attendance, aside>>

\* POST /api/payments
createPayment(member_id, b, ok) ==
  /\ Serving({ROLES.ADMIN, ROLES.STAFF})
  /\ Len(payments[member_id]) < MaxPayments
  /\ payments' = IF MemberFound(member_id, user.gym_id) /\ ok
                 THEN [payments EXCEPT ![member_id] = Append(@, PaymentRow(b))]
                 ELSE payments
  /\ user' = NoUser
  /\ UNCHANGED <<served, members, plans, now, run, batches, attendance, aside>>

\* .eq('id', id).eq('gym_id', gym_id).single() on payments; a payment id is the
\* member it belongs to and its position among the member's rows
PaymentFound(id, gym_id) ==
  /\ MemberFound(id[1], gym_id)
  /\ id[2] \in 1..Len(payments[id[1]])

\* PUT /api/payments/:id
updatePayment(id, b, ok) ==
  /\ Serving({ROLES.ADMIN, ROLES.STAFF})
  /\ payments' = IF PaymentFound(id, user.gym_id) /\ ok
                 THEN [payments EXCEPT ![id[1]][id[2]] = PaymentRow(b)]
                 ELSE payments
  /\ user' = NoUser
  /\ UNCHANGED <<served, members, plans, now, run, batches, attendance, aside>>

\* DELETE /api/payments/:id
deletePayment(id, ok) ==
  /\ Serving({ROLES.ADMIN})
  /\ payments' = IF PaymentFound(id, user.gym_id) /\ ok
                 THEN [payments EXCEPT ![id[1]] =
                         SubSeq(@, 1, id[2] - 1) \o SubSeq(@, id[2] + 1, Len(@))]
                 ELSE payments
  /\ user' = NoUser
  /\ UNCHANGED <<served, members, plans, now, run, batches, attendance, aside>>

\* POST /api/plans
createPlan(id, duration_in_months, ok) ==
  /\ Serving({ROLES.ADMIN, ROLES.STAFF})
  /\ id \notin DOMAIN plans
  /\ plans' = IF ok
              THEN [p \in DOMAIN plans \cup {id} |->
                      IF p = id
                      THEN [gym_id |-> user.gym_id,
                            duration_in_months |-> duration_in_months, price |-> 1000]
                      ELSE plans[p]]
              ELSE plans
  /\ user' = NoUser
  /\ UNCHANGED <<served, members, payments, now, run, batches, attendance, aside>>

\* mutant: the members of the plan get their end date recomputed from join_date
updatePlanAndMembers(id, duration_in_months, ok) ==
  /\ Serving({ROLES.ADMIN, ROLES.STAFF})
  /\ IF PlanFound(id, user.gym_id) /\ ok
     THEN /\ plans' = [plans EXCEPT ![id].duration_in_months = duration_in_months]
          /\ members' = [m \in DOMAIN members |->
                           IF members[m].plan_id = id
                           THEN [members[m] EXCEPT !.plan_end_date =
                                   planEndDate(members[m].join_date, duration_in_months)]
                           ELSE members[m]]
     ELSE UNCHANGED <<plans, members>>
  /\ user' = NoUser
  /\ UNCHANGED <<served, payments, now, run, batches, attendance, aside>>

\* PUT /api/plans/:id
updatePlan(id, duration_in_months, ok) ==
  /\ Serving({ROLES.ADMIN, ROLES.STAFF})
  /\ plans' = IF PlanFound(id, user.gym_id) /\ ok
              THEN [plans EXCEPT ![id].duration_in_months = duration_in_months]
              ELSE plans
  /\ user' = NoUser
  /\ UNCHANGED <<served, members, payments, now, run, batches, attendance, aside>>

\* DELETE /api/plans/:id; members.plan_id references plans(id)
deletePlan(id, ok) ==
  /\ Serving({ROLES.ADMIN})
  /\ plans' = IF /\ PlanFound(id, user.gym_id)
                 /\ ~\E m \in DOMAIN members : members[m].plan_id = id
                 /\ ok
              THEN [p \in DOMAIN plans \ {id} |-> plans[p]]
              ELSE plans
  /\ user' = NoUser
  /\ UNCHANGED <<served, members, payments, now, run, batches, attendance, aside>>

\* POST /api/batches
createBatch(id, ok) ==
  /\ Serving({ROLES.ADMIN, ROLES.STAFF})
  /\ id \notin DOMAIN batches
  /\ batches' = IF ok
                THEN [b \in DOMAIN batches \cup {id} |->
                        IF b = id THEN [gym_id |-> user.gym_id] ELSE batches[b]]
                ELSE batches
  /\ user' = NoUser
  /\ UNCHANGED <<served, members, payments, plans, now, run, attendance, aside>>

\* DELETE /api/batches/:id; members.batch_id references batches(id)
deleteBatch(id, ok) ==
  /\ Serving({ROLES.ADMIN})
  /\ batches' = IF /\ BatchFound(id, user.gym_id)
                   /\ ~\E m \in DOMAIN members : members[m].batch_id = id
                   /\ ok
                THEN [b \in DOMAIN batches \ {id} |-> batches[b]]
                ELSE batches
  /\ user' = NoUser
  /\ UNCHANGED <<served, members, payments, plans, now, run, attendance, aside>>

\* POST /api/attendance: the member's row of the date is updated, or inserted
recordAttendance(member_id, status, ok) ==
  /\ Serving({ROLES.ADMIN, ROLES.STAFF, ROLES.TRAINER})
  /\ LET date == ToISOString(now)
         existing == {a \in attendance : /\ a.member_id = member_id /\ a.date = date
                                         /\ a.gym_id = user.gym_id}
         taken == \E a \in attendance : a.member_id = member_id /\ a.date = date
     IN attendance' =
          IF ~(MemberFound(member_id, user.gym_id) /\ ok) THEN attendance
          ELSE IF existing # {}
          THEN (attendance \ existing) \cup {[a EXCEPT !.status = status] : a \in existing}
          ELSE IF taken THEN attendance
          ELSE attendance \cup {[member_id |-> member_id, date |-> date,
                                 status |-> status, gym_id |-> user.gym_id]}
  /\ user' = NoUser
  /\ UNCHANGED <<served, members, payments, plans, now, run, batches, aside>>

\* POST /api/attendance/batch with one entry in attendanceData: an upsert on
\* (member_id, date); attendance.member_id references members(id)
recordBatchAttendance(batch_id, member_id, status, ok) ==
  /\ Serving({ROLES.ADMIN, ROLES.STAFF, ROLES.TRAINER})
  /\ LET date == ToISOString(now) IN
     attendance' =
       IF BatchFound(batch_id, user.gym_id) /\ member_id \in DOMAIN members /\ ok
       THEN {a \in attendance : ~(a.member_id = member_id /\ a.date = date)}
            \cup {[member_id |-> member_id, date |-> date,
                   status |-> status, gym_id |-> user.gym_id]}
       ELSE attendance
  /\ user' = NoUser
  /\ UNCHANGED <<served, members, payments, plans, now, run, batches, aside>>

\* the store before the first request
InitApi ==
  /\ \E d \in {<<2024, 1, 31>>, <<2024, 4, 20>>} :
       members = [m \in {"m1", "m3"} |->
                    [gym_id |-> GymOf(m), status |-> "inactive",
                     plan_id |-> IF m = "m1" THEN "p1" ELSE "p2",
                     plan_end_date |-> IF m = "m1" THEN d ELSE <<2024, 1, 31>>,
                     join_date |-> JoinedOn, batch_id |-> NoBatch]]
  /\ payments = [m \in MemberIds |-> <<>>]
  /\ plans = [p \in PlanIds |->
                IF p = "p1" THEN [gym_id |-> "g1", duration_in_months |-> 1, price |-> 1000]
                ELSE [gym_id |-> "g2", duration_in_months |-> 3, price |-> 1000]]
  /\ now = ParseDate(StartDate)
  /\ run = [r \in RunIds |-> IdleRun]
  /\ user = NoUser
  /\ served = 0
  /\ batches = [b \in BatchIds |-> [gym_id |-> "g1"]]
  /\ attendance = {}
  /\ Quiet

NextApi ==
  \/ \E u \in Users \cup {NoUser} : Authenticate(u)
  \/ \E ok \in BOOLEAN : CheckStatus(ok)
  \/ NoChange(Serial)
  \/ \E ok \in BOOLEAN : SetInactive(Serial, ok)
  \/ \E ok \in BOOLEAN : FetchPlan(Serial, ok)
  \/ \E ok \in BOOLEAN : ExtendPlan(Serial, ok)
  \/ \E ok \in BOOLEAN : Reactivate(Serial, ok)
  \/ Respond(Serial)
  \/ \E id \in MemberIds, b \in MemberBodies, ok \in BOOLEAN, okPayment \in BOOLEAN :
       createMember(id, b, ok, okPayment)
  \/ \E id \in MemberIds, b \in MemberBodies, ok \in BOOLEAN, okPayment \in BOOLEAN :
       updateMember(id, b, ok, okPayment)
  \/ \E id \in MemberIds, ok \in BOOLEAN : deleteMember(id, ok)
  \/ \E m \in MemberIds, b \in PaymentBodies, ok \in BOOLEAN : createPayment(m, b, ok)
  \/ \E id \in MemberIds \X (1..MaxPayments), b \in PaymentBodies, ok \in BOOLEAN :
       updatePayment(id, b, ok)
  \/ \E id \in MemberIds \X (1..MaxPayments), ok \in BOOLEAN : deletePayment(id, ok)
  \/ \E id \in PlanIds \cup NewPlanIds, d \in Durations, ok \in BOOLEAN : createPlan(id, d, ok)
  \/ \E id \in PlanIds \cup NewPlanIds, d \in Durations, ok \in BOOLEAN : updatePlan(id, d, ok)
  \/ \E id \in PlanIds \cup NewPlanIds, ok \in BOOLEAN : deletePlan(id, ok)
  \/ \E id \in BatchIds, ok \in BOOLEAN : createBatch(id, ok)
  \/ \E id \in BatchIds, ok \in BOOLEAN : deleteBatch(id, ok)
  \/ \E m \in MemberIds, s \in {"present", "absent"}, ok \in BOOLEAN :
       recordAttendance(m, s, ok)
  \/ \E b \in BatchIds, m \in MemberIds, s \in {"present", "absent"}, ok \in BOOLEAN :
       recordBatchAttendance(b, m, s, ok)

SpecApi == InitApi /\ [][NextApi]_vars

(***************************************************************************)
(* The scheduled task: cron.schedule('0 0 * * *', ...) lists the gyms and, *)
(* for each gym whose auto_inactive_members is set, posts to the           *)
(* check-status endpoint with the token of process.env.ADMIN_TOKEN.        *)
(***************************************************************************)
\* the order in which the store lists the rows of the gyms table
GymOrder == <<"g1", "g2">>

\* the admins one of whose tokens ADMIN_TOKEN is
TokenUsers ==
  { [id |-> "u1", role |-> ROLES.ADMIN, gym_id |-> "g1"],
    [id |-> "u4", role |-> ROLES.ADMIN, gym_id |-> "g2"] }

\* what the scheduled task neither reads nor writes
asideCron == <<otpStore, auth, profiles, dateNow, reply, calls>>

\* the gym the loop of the task is at
CronGym == cron.gyms[cron.k]

\* from('gyms').select('id'); a gymsError is thrown to the outer catch
CronListGyms(ok) ==
  /\ cron.pc = "idle"
  /\ cron' = IF ok THEN [cron EXCEPT !.pc = "loop", !.gyms = GymOrder]
             ELSE [cron EXCEPT !.pc = "done", !.gymsError = TRUE]
  /\ UNCHANGED <<members, payments, plans, now, run, user, served, batches, attendance,
                 gym_settings, asideCron>>

\* mutant: a settingsError ends the loop over the gyms
CronSettingsAborting(ok) ==
  /\ cron.pc = "loop"
  /\ cron.k <= Len(cron.gyms)
  /\ cron' = IF ~ok THEN [cron EXCEPT !.pc = "done", !.visited = @ \cup {CronGym}]
             ELSE IF gym_settings[CronGym]
             THEN [cron EXCEPT !.pc = "call", !.visited = @ \cup {CronGym}]
             ELSE [cron EXCEPT !.k = @ + 1, !.visited = @ \cup {CronGym}]
  /\ UNCHANGED <<members, payments, plans, now, run, user, served, batches, attendance,
                 gym_settings, asideCron>>

\* from('gym_settings').select('auto_inactive_members').eq('gym_id', gym.id).single():
\* a settingsError is logged and the loop continues; so it does when the setting is off
CronSettings(ok) ==
  /\ cron.pc = "loop"
  /\ cron.k <= Len(cron.gyms)
  /\ cron' = IF ok /\ gym_settings[CronGym]
             THEN [cron EXCEPT !.pc = "call", !.visited = @ \cup {CronGym}]
             ELSE [cron EXCEPT !.k = @ + 1, !.visited = @ \cup {CronGym}]
  /\ UNCHANGED <<members, payments, plans, now, run, user, served, batches, attendance,
                 gym_settings, asideCron>>

\* axios.post(`${API_URL}/members/check-status`, {}, Bearer ADMIN_TOKEN): the request
\* arrives and authenticate sets req.user from the token, or the call throws and the
\* catch of the iteration logs it
CronPost(arrives) ==
  /\ cron.pc = "call"
  /\ IF arrives
     THEN /\ cron' = [cron EXCEPT !.pc = "sent"]
          /\ user' = cron.token
          /\ run' = [run EXCEPT ![Serial] = IdleRun]
     ELSE /\ cron' = [cron EXCEPT !.pc = "loop", !.k = @ + 1]
          /\ UNCHANGED <<user, run>>
  /\ UNCHANGED <<members, payments, plans, now, served, batches, attendance,
                 gym_settings, asideCron>>

\* the handler of the request the task has sent starts
CronCheckStatus(ok) ==
  /\ cron.pc = "sent"
  /\ run[Serial].pc = "idle"
  /\ CheckStatus(ok)

\* the response arrives: a 200 ends the iteration, a 500 makes axios throw into the
\* catch of the iteration, which ends it too
CronResponse ==
  /\ cron.pc = "sent"
  /\ run[Serial].pc \in {"done", "failed"}
  /\ cron' = [cron EXCEPT !.pc = "loop", !.k = @ + 1,
                          !.posted = @ \cup {<<CronGym, run[Serial].gym_id>>}]
  /\ user' = NoUser
  /\ UNCHANGED <<members, payments, plans, now, run, served, batches, attendance,
                 gym_settings, asideCron>>

\* the loop over the gyms is over
CronEnd ==
  /\ cron.pc = "loop"
  /\ cron.k > Len(cron.gyms)
  /\ cron' = [cron EXCEPT !.pc = "done"]
  /\ UNCHANGED <<members, payments, plans, now, run, user, served, batches, attendance,
                 gym_settings, asideCron>>

\* the store at midnight, the settings of the gyms and the owner of ADMIN_TOKEN
InitCron ==
  /\ \E d \in {<<2024, 1, 31>>, <<2024, 4, 20>>} :
       members = [m \in MemberIds |->
                    [gym_id |-> GymOf(m), status |-> IF m = "m2" THEN "active" ELSE "inactive",
                     plan_id |-> IF GymOf(m) = "g1" THEN "p1" ELSE "p2",
                     plan_end_date |-> IF m = "m1" THEN d ELSE <<2024, 1, 31>>,
                     join_date |-> JoinedOn, batch_id |-> NoBatch]]
  /\ payments = [m \in MemberIds |->
                   IF m = "m2" THEN <<>> ELSE <<Plan(<<2024, 2, 10>>, 0)>>]
  /\ plans = [p \in PlanIds |->
                IF p = "p1" THEN [gym_id |-> "g1", duration_in_months |-> 1, price |-> 1000]
                ELSE [gym_id |-> "g2", duration_in_months |-> 3, price |-> 1000]]
  /\ now = ParseDate(StartDate)
  /\ run = [r \in RunIds |-> IdleRun]
  /\ user = NoUser
  /\ served = 0
  /\ batches = [b \in BatchIds |-> [gym_id |-> "g1"]]
  /\ attendance = {}
  /\ \E t \in TokenUsers : cron = [IdleCron EXCEPT !.token = t]
  /\ gym_settings \in [Gyms -> BOOLEAN]
  /\ otpStore = <<>>
  /\ auth = [users |-> {}, issued |-> 0]
  /\ profiles = {}
  /\ dateNow = 0
  /\ reply = NoReply
  /\ calls = [c \in CallIds |-> IdleCall]

NextCron ==
  \/ \E ok \in BOOLEAN : CronListGyms(ok)
  \/ \E ok \in BOOLEAN : CronSettings(ok)
  \/ \E arrives \in BOOLEAN : CronPost(arrives)
  \/ \E ok \in BOOLEAN : CronCheckStatus(ok)
  \/ NoChange(Serial)
  \/ \E ok \in BOOLEAN : SetInactive(Serial, ok)
  \/ \E ok \in BOOLEAN : FetchPlan(Serial, ok)
  \/ \E ok \in BOOLEAN : ExtendPlan(Serial, ok)
  \/ \E ok \in BOOLEAN : Reactivate(Serial, ok)
  \/ Respond(Serial)
  \/ CronResponse
  \/ CronEnd

\* every await of the task and of the handler it calls settles
SpecCron == InitCron /\ [][NextCron]_vars /\ WF_vars(NextCron)

(***************************************************************************)
(* Registration: initiateRegistration stores an OTP for an email,          *)
(* verifyAndRegister checks it, signs the user up with the identity        *)
(* provider and inserts the profile row.                                   *)
(***************************************************************************)
Emails == {"e1", "e2"}

\* the values generateOTP returns
Otps == {"111111", "222222"}

\* timeElapsed > 10 * 60 * 1000, in minutes
OtpTtl == 10

\* what the registration handlers neither read nor write
asideAuth == <<members, payments, plans, now, run, user, served, batches, attendance,
               cron, gym_settings, calls>>

\* POST /api/auth/register/initiate: otpStore.set(email, { otp, data, timestamp })
initiateRegistration(email, otp, emailSent) ==
  /\ otpStore' =
       IF (\E p \in profiles : p.email = email) \/ ~emailSent THEN otpStore
       ELSE [e \in DOMAIN otpStore \cup {email} |->
               IF e = email THEN [otp |-> otp, timestamp |-> dateNow] ELSE otpStore[e]]
  /\ UNCHANGED <<auth, profiles, dateNow, reply, asideAuth>>

\* mutant: a stored OTP stays valid
OtpNeverExpired(timestamp) == FALSE

\* timeElapsed = Date.now() - storedData.timestamp; timeElapsed > 10 * 60 * 1000
OtpExpired(timestamp) == dateNow - timestamp > OtpTtl

\* mutant: the entry of the email stays in the map
KeepStored(email) == otpStore

\* otpStore.delete(email)
ClearStored(email) == [e \in DOMAIN otpStore \ {email} |-> otpStore[e]]

\* mutant: the profile gets the gym of the first registered admin
ProfileRowOfFirstGym(id, email) ==
  [id |-> id, email |-> email, role |-> ROLES.ADMIN, gym_id |-> 1]

\* { id: authData.user.id, ..., email, role: 'admin', gym_id: authData.user.id }
ProfileRow(id, email) ==
  [id |-> id, email |-> email, role |-> ROLES.ADMIN, gym_id |-> id]

\* res.status(status).json({ success, message }) of request n
Reply(email, otp, status, message) ==
  [n |-> reply.n + 1, email |-> email, otp |-> otp, status |-> status, message |-> message]

\* POST /api/auth/register/verify.  signUp fails (okSignUp false, or the email is
\* registered with the provider already); the insert of the profile fails (okInsert
\* false, or users.email is taken); deleteUser of the rollback fails (okDelete false).
verifyAndRegister(email, otp, okSignUp, okInsert, okDelete) ==
  /\ reply.n < MaxVerifies
  /\ LET id == auth.issued + 1
         authUser == [id |-> id, email |-> email]
     IN
     IF email \notin DOMAIN otpStore
     THEN /\ reply' = Reply(email, otp, 400, "Registration session expired or invalid")
          /\ UNCHANGED <<otpStore, auth, profiles>>
     ELSE IF OtpExpired(otpStore[email].timestamp)
     THEN /\ otpStore' = ClearStored(email)
          /\ reply' = Reply(email, otp, 400, "OTP expired")
          /\ UNCHANGED <<auth, profiles>>
     ELSE IF otp # otpStore[email].otp
     THEN /\ reply' = Reply(email, otp, 400, "Invalid OTP")
          /\ UNCHANGED <<otpStore, auth, profiles>>
     ELSE IF ~okSignUp \/ (\E a \in auth.users : a.email = email)
     THEN /\ reply' = Reply(email, otp, 400, "authError")
          /\ UNCHANGED <<otpStore, auth, profiles>>
     ELSE IF ~okInsert \/ (\E p \in profiles : p.email = email)
     THEN /\ auth' = [users |-> IF okDelete THEN auth.users ELSE auth.users \cup {authUser},
                      issued |-> id]
          /\ reply' = Reply(email, otp, 400, "userError")
          /\ UNCHANGED <<otpStore, profiles>>
     ELSE /\ auth' = [users |-> auth.users \cup {authUser}, issued |-> id]
          /\ profiles' = profiles \cup {ProfileRow(id, email)}
          /\ otpStore' = ClearStored(email)
          /\ reply' = Reply(email, otp, 201, "User registered successfully")
  /\ UNCHANGED <<dateNow, asideAuth>>

\* five minutes pass
TickMinutes ==
  /\ dateNow < MaxMinutes
  /\ dateNow' = dateNow + 5
  /\ UNCHANGED <<otpStore, auth, profiles, reply, asideAuth>>

NextAuth ==
  \/ \E email \in Emails, otp \in Otps, emailSent \in BOOLEAN :
       initiateRegistration(email, otp, emailSent)
  \/ \E email \in Emails, otp \in Otps,
        okSignUp \in BOOLEAN, okInsert \in BOOLEAN, okDelete \in BOOLEAN :
       verifyAndRegister(email, otp, okSignUp, okInsert, okDelete)
  \/ TickMinutes

\* an empty store: nobody has registered
InitAuth ==
  /\ members = <<>>
  /\ payments = [m \in MemberIds |-> <<>>]
  /\ plans = <<>>
  /\ now = ParseDate(StartDate)
  /\ run = [r \in RunIds |-> IdleRun]
  /\ user = NoUser
  /\ served = 0
  /\ batches = <<>>
  /\ attendance = {}
  /\ Quiet

SpecAuth == InitAuth /\ [][NextAuth]_vars

(***************************************************************************)
(* Handlers that run interleaved.  Two clients send deletePlan,            *)
(* createMember, updateMember and recordAttendance requests; a handler     *)
(* gives way to the other one at each await of a store call.  The store    *)
(* enforces members.plan_id REFERENCES plans(id) and                       *)
(* attendance UNIQUE(member_id, date).                                     *)
(***************************************************************************)
\* the admins of the two gyms
RaceUsers ==
  { [id |-> "u1", role |-> ROLES.ADMIN, gym_id |-> "g1"],
    [id |-> "u4", role |-> ROLES.ADMIN, gym_id |-> "g2"] }

\* what the interleaved handlers neither read nor write
asideRace == <<payments, now, run, user, served, batches,
               cron, gym_settings, otpStore, auth, profiles, dateNow, reply>>

\* the handler of call c is at step pc of operation op
At(c, op, pc) == calls[c].op = op /\ calls[c].pc = pc

\* res.status(status).json(...)
Answer(c, status) == [calls EXCEPT ![c].pc = "done", ![c].response = status]

\* a request arrives; the id of createMember is the id the store gives the new row
Request(c, u, op, id, plan_id, status) ==
  /\ calls[c].pc \in {"idle", "done"}
  /\ calls[c].n < MaxCalls
  /\ op = "createMember" =>
       /\ id \notin DOMAIN members
       /\ \A d \in CallIds : ~(calls[d].op = "createMember" /\ calls[d].pc # "done")
  /\ calls' = [calls EXCEPT ![c] =
       [IdleCall EXCEPT !.n = calls[c].n + 1, !.op = op, !.pc = "find", !.user = u,
                        !.id = id, !.plan_id = plan_id, !.status = status]]
  /\ UNCHANGED <<members, plans, attendance, asideRace>>

\* deletePlan: the plan of the gym is looked up
deletePlanFind(c) ==
  /\ At(c, "deletePlan", "find")
  /\ calls' = IF PlanFound(calls[c].id, calls[c].user.gym_id)
              THEN [calls EXCEPT ![c].pc = "check"]
              ELSE Answer(c, 404)
  /\ UNCHANGED <<members, plans, attendance, asideRace>>

\* from('members').select('id').eq('plan_id', id).eq('gym_id', gym_id).limit(1)
AssignedInGym(id, gym_id) ==
  \E m \in DOMAIN members : members[m].plan_id = id /\ members[m].gym_id = gym_id

\* deletePlan: if (!memberError && members.length > 0) return 400
deletePlanCheck(c, ok) ==
  /\ At(c, "deletePlan", "check")
  /\ calls' = IF ok /\ AssignedInGym(calls[c].id, calls[c].user.gym_id)
              THEN Answer(c, 400)
              ELSE [calls EXCEPT ![c].pc = "write", ![c].found = TRUE]
  /\ UNCHANGED <<members, plans, attendance, asideRace>>

\* mutant: the store has no foreign key from members to plans
PlanNeverReferenced(id) == FALSE

\* members.plan_id REFERENCES plans(id): a row of members refers to the plan
PlanReferenced(id) == \E m \in DOMAIN members : members[m].plan_id = id

\* deletePlan: from('plans').delete().eq('id', id).eq('gym_id', gym_id)
deletePlanDelete(c, ok) ==
  /\ At(c, "deletePlan", "write")
  /\ LET id == calls[c].id
         there == PlanFound(id, calls[c].user.gym_id)
     IN IF ~ok \/ (there /\ PlanReferenced(id))
        THEN /\ calls' = Answer(c, 400)
             /\ plans' = plans
        ELSE /\ calls' = Answer(c, 200)
             /\ plans' = [q \in DOMAIN plans \ (IF there THEN {id} ELSE {}) |-> plans[q]]
  /\ UNCHANGED <<members, attendance, asideRace>>

\* createMember: the plan of the gym is looked up
createMemberPlan(c) ==
  /\ At(c, "createMember", "find")
  /\ calls' = IF PlanFound(calls[c].plan_id, calls[c].user.gym_id)
              THEN [calls EXCEPT ![c].pc = "write",
                      ![c].duration_in_months = plans[calls[c].plan_id].duration_in_months]
              ELSE Answer(c, 400)
  /\ UNCHANGED <<members, plans, attendance, asideRace>>

\* createMember: from('members').insert([memberData]); the store checks the plan_id
createMemberInsert(c, ok) ==
  /\ At(c, "createMember", "write")
  /\ IF ok /\ calls[c].plan_id \in DOMAIN plans
     THEN /\ members' =
               [m \in DOMAIN members \cup {calls[c].id} |->
                  IF m = calls[c].id
                  THEN [gym_id |-> calls[c].user.gym_id, status |-> calls[c].status,
                        plan_id |-> calls[c].plan_id,
                        plan_end_date |-> planEndDate(JoinedOn, calls[c].duration_in_months),
                        join_date |-> JoinedOn, batch_id |-> NoBatch]
                  ELSE members[m]]
          /\ calls' = Answer(c, 201)
     ELSE /\ members' = members
          /\ calls' = Answer(c, 400)
  /\ UNCHANGED <<plans, attendance, asideRace>>

\* updateMember: the member of the gym is looked up
updateMemberFind(c) ==
  /\ At(c, "updateMember", "find")
  /\ calls' = IF MemberFound(calls[c].id, calls[c].user.gym_id)
              THEN [calls EXCEPT ![c].pc = "check"]
              ELSE Answer(c, 404)
  /\ UNCHANGED <<members, plans, attendance, asideRace>>

\* updateMember: the plan of the gym is looked up
updateMemberPlan(c) ==
  /\ At(c, "updateMember", "check")
  /\ calls' = IF PlanFound(calls[c].plan_id, calls[c].user.gym_id)
              THEN [calls EXCEPT ![c].pc = "write"]
              ELSE Answer(c, 400)
  /\ UNCHANGED <<members, plans, attendance, asideRace>>

\* updateMember: from('members').update(updateObj) of a body with status and plan_id;
\* the store checks the plan_id
updateMemberWrite(c, ok) ==
  /\ At(c, "updateMember", "write")
  /\ IF /\ ok
        /\ calls[c].plan_id \in DOMAIN plans
        /\ MemberFound(calls[c].id, calls[c].user.gym_id)
     THEN /\ members' = [members EXCEPT ![calls[c].id].status = calls[c].status,
                                        ![calls[c].id].plan_id = calls[c].plan_id]
          /\ calls' = Answer(c, 200)
     ELSE /\ members' = members
          /\ calls' = Answer(c, 400)
  /\ UNCHANGED <<plans, attendance, asideRace>>

\* recordAttendance: the member of the gym is looked up
recordAttendanceMember(c) ==
  /\ At(c, "recordAttendance", "find")
  /\ calls' = IF MemberFound(calls[c].id, calls[c].user.gym_id)
              THEN [calls EXCEPT ![c].pc = "check"]
              ELSE Answer(c, 404)
  /\ UNCHANGED <<members, plans, attendance, asideRace>>

\* recordAttendance: the row of the member, the date and the gym is looked up
recordAttendanceExisting(c) ==
  /\ At(c, "recordAttendance", "check")
  /\ calls' = [calls EXCEPT ![c].pc = "write",
       ![c].found = \E a \in attendance : /\ a.member_id = calls[c].id
                                          /\ a.date = ToISOString(now)
                                          /\ a.gym_id = calls[c].user.gym_id]
  /\ UNCHANGED <<members, plans, attendance, asideRace>>

\* mutant: the store has no unique constraint on attendance
NeverTaken(member_id, date) == FALSE

\* attendance UNIQUE(member_id, date): the pair has its row
Taken(member_id, date) ==
  \E a \in attendance : a.member_id = member_id /\ a.date = date

\* recordAttendance: the update of the existing row, or the insert of a new one
recordAttendanceWrite(c, ok) ==
  /\ At(c, "recordAttendance", "write")
  /\ LET date == ToISOString(now)
         existing == {a \in attendance : /\ a.member_id = calls[c].id /\ a.date = date
                                         /\ a.gym_id = calls[c].user.gym_id}
     IN IF ~ok
        THEN /\ attendance' = attendance
             /\ calls' = Answer(c, 400)
        ELSE IF calls[c].found
        THEN /\ attendance' = (attendance \ existing) \cup
                                {[a EXCEPT !.status = calls[c].status] : a \in existing}
             /\ calls' = Answer(c, 200)
        ELSE IF Taken(calls[c].id, date)
        THEN /\ attendance' = attendance
             /\ calls' = Answer(c, 400)
        ELSE /\ attendance' = attendance \cup
                    {[member_id |-> calls[c].id, date |-> date,
                      status |-> calls[c].status, gym_id |-> calls[c].user.gym_id]}
             /\ calls' = Answer(c, 201)
  /\ UNCHANGED <<members, plans, asideRace>>

\* m1 of gym g1 has plan p1, m3 of gym g2 has plan p2; plan p3 of g1 has no member
InitRace ==
  /\ members = [m \in {"m1", "m3"} |->
                  [gym_id |-> GymOf(m), status |-> "active",
                   plan_id |-> IF m = "m1" THEN "p1" ELSE "p2",
                   plan_end_date |-> <<2024, 4, 20>>,
                   join_date |-> JoinedOn, batch_id |-> NoBatch]]
  /\ payments = [m \in MemberIds |-> <<>>]
  /\ plans = [p \in PlanIds \cup NewPlanIds |->
                [gym_id |-> IF p = "p2" THEN "g2" ELSE "g1",
                 duration_in_months |-> IF p = "p1" THEN 1 ELSE 3, price |-> 1000]]
  /\ now = ParseDate(StartDate)
  /\ run = [r \in RunIds |-> IdleRun]
  /\ user = NoUser
  /\ served = 0
  /\ batches = [b \in BatchIds |-> [gym_id |-> "g1"]]
  /\ attendance = {}
  /\ Quiet

NextRace ==
  \/ \E c \in CallIds, u \in RaceUsers :
       \/ Request(c, u, "deletePlan", "p3", NoPlan, "none")
       \/ \E s \in {"active", "inactive"} : Request(c, u, "createMember", "m2", "p3", s)
       \/ \E s \in {"active", "inactive"} : Request(c, u, "updateMember", "m1", "p3", s)
       \/ \E m \in {"m1", "m3"}, s \in {"present", "absent"} :
            Request(c, u, "recordAttendance", m, NoPlan, s)
  \/ \E c \in CallIds : deletePlanFind(c)
  \/ \E c \in CallIds, ok \in BOOLEAN : deletePlanCheck(c, ok)
  \/ \E c \in CallIds, ok \in BOOLEAN : deletePlanDelete(c, ok)
  \/ \E c \in CallIds : createMemberPlan(c)
  \/ \E c \in CallIds, ok \in BOOLEAN : createMemberInsert(c, ok)
  \/ \E c \in CallIds : updateMemberFind(c)
  \/ \E c \in CallIds : updateMemberPlan(c)
  \/ \E c \in CallIds, ok \in BOOLEAN : updateMemberWrite(c, ok)
  \/ \E c \in CallIds : recordAttendanceMember(c)
  \/ \E c \in CallIds : recordAttendanceExisting(c)
  \/ \E c \in CallIds, ok \in BOOLEAN : recordAttendanceWrite(c, ok)

SpecRace == InitRace /\ [][NextRace]_vars

(***************************************************************************)
(* The rates of the reports.  A rate is the pair <<numerator, denominator>> *)
(* of the number (part / whole) * 100; the number 0 is <<0, 1>>.           *)
(***************************************************************************)
Zero == <<0, 1>>

\* mutant: the quotient is taken whatever the denominator is
RateUnguarded(part, whole) == <<part * 100, whole>>

\* whole > 0 ? (part / whole) * 100 : 0
Rate(part, whole) == IF whole > 0 THEN <<part * 100, whole>> ELSE Zero

RECURSIVE Flatten(_)
Flatten(seqs) == IF seqs = <<>> THEN <<>> ELSE Head(seqs) \o Flatten(Tail(seqs))

RECURSIVE SumOf(_, _)
SumOf(rows, field) ==
  IF rows = <<>> THEN 0 ELSE Head(rows)[field] + SumOf(Tail(rows), field)

\* from('payments').select(...).eq('gym_id', gym_id), every row being in the period
SelectPayments(gym_id) ==
  LET ids == SelectSeq(MemberOrder,
                       LAMBDA m : m \in DOMAIN members /\ members[m].gym_id = gym_id)
  IN Flatten([k \in 1..Len(ids) |-> payments[ids[k]]])

\* from('payments').select(...) of getPaymentSummary, every row being in the period
SelectAllPayments ==
  LET ids == SelectSeq(MemberOrder, LAMBDA m : m \in DOMAIN members)
  IN Flatten([k \in 1..Len(ids) |-> payments[ids[k]]])

\* getFinancialSummaryReport: summary.collection_rate
collection_rate(gym_id) ==
  Rate(SumOf(SelectPayments(gym_id), "amount_paid"),
       SumOf(SelectPayments(gym_id), "total_amount"))

\* getPaymentSummary: collectionRate
collectionRate ==
  Rate(SumOf(SelectAllPayments, "amount_paid"), SumOf(SelectAllPayments, "total_amount"))

\* getAttendanceSummaryReport: the active members of the gym
ActiveMembers(gym_id) ==
  {m \in DOMAIN members : members[m].status = "active" /\ members[m].gym_id = gym_id}

\* getAttendanceSummaryReport: the attendance rows of the gym for those members, every
\* row being in the date range
SelectAttendance(gym_id) ==
  {a \in attendance : a.gym_id = gym_id /\ a.member_id \in ActiveMembers(gym_id)}

\* getAttendanceSummaryReport: attendance_percentage of a member of the report
attendance_percentage(member_id, gym_id) ==
  LET mine == {a \in SelectAttendance(gym_id) : a.member_id = member_id}
  IN Rate(Cardinality({a \in mine : a.status = "present"}), Cardinality(mine))

\* getAttendanceSummaryReport: summary.overall_attendance_percentage
overall_attendance_percentage(gym_id) ==
  Rate(Cardinality({a \in SelectAttendance(gym_id) : a.status = "present"}),
       Cardinality(SelectAttendance(gym_id)))

(***************************************************************************)
(* Vocabulary of the properties.  A row is a member as the sweep listed    *)
(* it (its state before the sweep); members[row.id] is its state now.      *)
(***************************************************************************)
Rows(r) == {run[r].members[k] : k \in 1..Len(run[r].members)}

Done(r) == run[r].pc = "done"

\* the sweep logged no store error
Clean(r) == run[r].logged = {}

\* the entry of updatedMembers of a member, or none
Reported(r, id) ==
  {run[r].updatedMembers[j] : j \in {k \in 1..Len(run[r].updatedMembers) :
                                        run[r].updatedMembers[k].id = id}}

\* what the sweep left of a listed member: its stored fields and its report
Outcome(r, row) ==
  [status |-> members[row.id].status,
   plan_end_date |-> members[row.id].plan_end_date,
   reported |-> {[reason |-> u.reason, new_plan_end_date |-> u.new_plan_end_date] :
                   u \in Reported(r, row.id)}]

Untouched(r, row) ==
  Outcome(r, row) = [status |-> row.status, plan_end_date |-> row.plan_end_date,
                     reported |-> {}]

\* the payments that are not tagged as admission fee
NonAdmission(ps) == {ps[k] : k \in {j \in 1..Len(ps) : ps[j].notes # "Admission Fee"}}

\* the non-admission payments of maximum payment_date
LatestNonAdmission(ps) ==
  {p \in NonAdmission(ps) :
     \A q \in NonAdmission(ps) :
        ParseDate(q.payment_date).day <= ParseDate(p.payment_date).day}

LatestIsSettled(ps) == \E p \in LatestNonAdmission(ps) : p.due_amount = 0

\* plan_end_date before, on, or after the calendar day of today
EndsBeforeToday(row, today) == ParseDate(row.plan_end_date).day < today.day
EndsToday(row, today) == ParseDate(row.plan_end_date).day = today.day

\* calendar-month addition as setMonth does it: the same day of month k months on,
\* running over into the following month when that month is too short
MonthsOn(date, k) ==
  LET mi == (date[2] - 1) + k
      y == date[1] + (mi \div 12)
      m == (mi % 12) + 1
  IN IF date[3] <= DaysInMonth(y, m) THEN <<y, m, date[3]>>
     ELSE IF m = 12 THEN <<y + 1, 1, date[3] - DaysInMonth(y, m)>>
     ELSE <<y, m + 1, date[3] - DaysInMonth(y, m)>>

\* what the loop body does to a member when its store calls succeed
Expected(row, today) ==
  LET b == Branch(row, today) IN
  IF b = "inactive"
  THEN [status |-> "inactive", plan_end_date |-> row.plan_end_date,
        reported |-> {[reason |-> "Plan expired with unpaid dues, set to inactive",
                       new_plan_end_date |-> <<>>]}]
  ELSE IF b = "extend"
  THEN [status |-> "active",
        plan_end_date |-> MonthsOn(row.plan_end_date, plans[row.plan_id].duration_in_months),
        reported |-> {[reason |-> "Plan extended after full payment, set to active",
                       new_plan_end_date |->
                         MonthsOn(row.plan_end_date, plans[row.plan_id].duration_in_months)]}]
  ELSE IF b = "reactivate"
  THEN [status |-> "active", plan_end_date |-> row.plan_end_date,
        reported |-> {[reason |-> "All dues paid and plan valid, set to active",
                       new_plan_end_date |-> <<>>]}]
  ELSE [status |-> row.status, plan_end_date |-> row.plan_end_date, reported |-> {}]

(***************************************************************************)
(* Properties.                                                             *)
(***************************************************************************)

\* C1: after a sweep of a gym in which every store call succeeded, every member of
\* the gym whose plan_end_date is before today and who has no non-admission payment
\* with due_amount = 0 is inactive (members without payments included).
C1_ExpiredUnpaidInactive ==
  \A r \in RunIds :
    (Done(r) /\ Clean(r)) =>
      \A m \in MemberIds :
        members[m].gym_id = run[r].gym_id =>
          \E row \in Rows(r) :
            /\ row.id = m
            /\ (EndsBeforeToday(row, run[r].today)
                /\ ~\E p \in NonAdmission(row.payments) : p.due_amount = 0)
               => members[m].status = "inactive"

\* a sweep set inactive an active, expired member that has no payment at all
C1_Witness ==
  \E r \in RunIds :
    /\ Done(r) /\ Clean(r)
    /\ \E row \in Rows(r) :
         /\ row.status = "active" /\ row.payments = <<>>
         /\ EndsBeforeToday(row, run[r].today)
         /\ members[row.id].status = "inactive"

\* C2 as stated: after a sweep, every member whose plan_end_date was before today
\* and whose latest non-admission payment has due_amount = 0 is active with
\* plan_end_date = old plan_end_date + the plan's duration_in_months.
C2_AsStated ==
  \A r \in RunIds :
    Done(r) =>
      \A row \in Rows(r) :
        (EndsBeforeToday(row, run[r].today) /\ LatestIsSettled(row.payments)) =>
          /\ members[row.id].status = "active"
          /\ row.plan_id \in DOMAIN plans
          /\ members[row.id].plan_end_date =
               MonthsOn(row.plan_end_date, plans[row.plan_id].duration_in_months)

\* C2 amended: the same, for the members whose plan_id resolves to a plan and for
\* whom neither the plan lookup nor the member update failed.
C2_ExtendedFromOldEndDate ==
  \A r \in RunIds :
    Done(r) =>
      \A row \in Rows(r) :
        (/\ EndsBeforeToday(row, run[r].today)
         /\ LatestIsSettled(row.payments)
         /\ row.plan_id \in DOMAIN plans
         /\ row.id \notin run[r].logged) =>
          /\ members[row.id].status = "active"
          /\ members[row.id].plan_end_date =
               MonthsOn(row.plan_end_date, plans[row.plan_id].duration_in_months)
          /\ \E u \in Reported(r, row.id) :
               u.new_plan_end_date = members[row.id].plan_end_date

\* a sweep on 2024-03-15 extended an inactive member from 2024-01-31 by one month
C2_Witness ==
  \E r \in RunIds :
    /\ Done(r)
    /\ \E row \in Rows(r) :
         /\ row.status = "inactive" /\ row.plan_end_date = <<2024, 1, 31>>
         /\ LatestIsSettled(row.payments)
         /\ members[row.id].status = "active"
         /\ members[row.id].plan_end_date = <<2024, 3, 2>>

\* C3 (on sweeps without store errors): for every member with plan_end_date >= today
\* the sweep leaves status unchanged, unless the member is inactive and the latest
\* non-admission payment has due_amount = 0, and then status becomes active.
C3_AsStated ==
  \A r \in RunIds :
    (Done(r) /\ Clean(r)) =>
      \A row \in Rows(r) :
        ~EndsBeforeToday(row, run[r].today) =>
          members[row.id].status =
            (IF row.status = "inactive" /\ LatestIsSettled(row.payments)
             THEN "active" ELSE row.status)

\* C4 (second sweep right after a sweep without store errors, at the same instant):
\* the second sweep leaves every member's status and plan_end_date as the first left
\* them and reports totalUpdated = 0.
C4_AsStated ==
  \A r \in RunIds :
    (Done(r) /\ run[r].repeat) =>
      /\ run[r].response.totalUpdated = 0
      /\ \A row \in Rows(r) : Untouched(r, row)

\* C5: two members that differ only in their admission-fee payments get the same
\* status, plan_end_date and reported reason from a sweep.
C5_AdmissionFeeIgnored ==
  \A r \in RunIds :
    Done(r) =>
      \A a \in Rows(r), b \in Rows(r) :
        (/\ a.status = b.status /\ a.plan_end_date = b.plan_end_date
         /\ a.plan_id = b.plan_id
         /\ NonAdmission(a.payments) = NonAdmission(b.payments)
         /\ a.id \notin run[r].logged /\ b.id \notin run[r].logged) =>
          Outcome(r, a) = Outcome(r, b)

\* a sweep updated two members alike that differ in an admission-fee payment
C5_Witness ==
  \E r \in RunIds :
    /\ Done(r)
    /\ \E a \in Rows(r), b \in Rows(r) :
         /\ a.status = b.status /\ a.plan_end_date = b.plan_end_date
         /\ a.plan_id = b.plan_id
         /\ NonAdmission(a.payments) = NonAdmission(b.payments)
         /\ a.payments # b.payments
         /\ \E p \in NonAdmission(a.payments) : p.due_amount > 0
         /\ \E k \in 1..Len(b.payments) :
              b.payments[k].notes = "Admission Fee" /\ b.payments[k].due_amount = 0
         /\ Reported(r, a.id) # {} /\ Reported(r, b.id) # {}

\* C6: two members that agree on the non-admission payment of maximum payment_date
\* (or both have none) get the same outcome, whatever their earlier payments are.
C6_OnlyLatestPaymentCounts ==
  \A r \in RunIds :
    Done(r) =>
      \A a \in Rows(r), b \in Rows(r) :
        (/\ a.status = b.status /\ a.plan_end_date = b.plan_end_date
         /\ a.plan_id = b.plan_id
         /\ LatestNonAdmission(a.payments) = LatestNonAdmission(b.payments)
         /\ a.id \notin run[r].logged /\ b.id \notin run[r].logged) =>
          Outcome(r, a) = Outcome(r, b)

\* a sweep updated two members alike of which one has an earlier payment with the
\* opposite due state
C6_Witness ==
  \E r \in RunIds :
    /\ Done(r)
    /\ \E a \in Rows(r), b \in Rows(r) :
         /\ a.status = b.status /\ a.plan_end_date = b.plan_end_date
         /\ a.plan_id = b.plan_id
         /\ LatestNonAdmission(a.payments) = LatestNonAdmission(b.payments)
         /\ Len(a.payments) = 1 /\ Len(b.payments) = 2
         /\ \E p \in NonAdmission(b.payments) :
              p.due_amount # a.payments[1].due_amount
         /\ Reported(r, a.id) # {} /\ Reported(r, b.id) # {}

\* C7 (on sweeps without store errors): a member whose plan_end_date is today's
\* calendar date is neither set inactive nor extended, whatever the time of day.
C7_AsStated ==
  \A r \in RunIds :
    (Done(r) /\ Clean(r)) =>
      \A row \in Rows(r) :
        EndsToday(row, run[r].today) =>
          /\ members[row.id].plan_end_date = row.plan_end_date
          /\ ~(row.status = "active" /\ members[row.id].status = "inactive")

\* C8: a member whose store call failed is left unchanged and is not reported, every
\* other member is updated as the loop body prescribes, and the response is the
\* success summary.
C8_FailureIsolated ==
  \A r \in RunIds :
    Done(r) =>
      /\ run[r].response.success /\ run[r].response.status = 200
      /\ \A row \in Rows(r) :
           IF row.id \in run[r].logged
           THEN Untouched(r, row)
           ELSE Outcome(r, row) = Expected(row, run[r].today)

\* a sweep failed to update its first member and updated its second
C8_Witness ==
  \E r \in RunIds :
    /\ Done(r)
    /\ Len(run[r].members) = 2
    /\ Branch(run[r].members[1], run[r].today) \in {"inactive", "reactivate"}
    /\ run[r].members[1].id \in run[r].logged
    /\ Untouched(r, run[r].members[1])
    /\ Reported(r, run[r].members[2].id) # {}

\* C9: a request whose member listing failed ends as a failure response, reports
\* nothing and writes no member.
C9_ListFailureWritesNothing ==
  [][\A r \in RunIds :
       (run'[r].membersError /\ run'[r] # run[r]) =>
         /\ run'[r].pc = "failed"
         /\ run'[r].response.status = 500 /\ ~run'[r].response.success
         /\ run'[r].updatedMembers = <<>>
         /\ members' = members]_vars

\* a listing failed after an earlier sweep of the same client had updated a member
C9_Witness ==
  \E r \in RunIds :
    /\ run[r].pc = "failed" /\ run[r].membersError
    /\ run[r].response.status = 500
    /\ \E m \in MemberIds : members[m].plan_end_date \notin PlanEndDates

\* C10: an expired member whose latest plan payment is settled and whose plan_id
\* resolves to no plan keeps its plan_end_date and status and is not reported, and
\* the members after it are still handled as the loop body prescribes.
C10_MissingPlanSkipped ==
  \A r \in RunIds :
    Done(r) =>
      \A k \in 1..Len(run[r].members) :
        LET row == run[r].members[k] IN
        (/\ Expired(row, run[r].today)
         /\ LatestIsSettled(row.payments)
         /\ row.plan_id \notin DOMAIN plans) =>
          /\ Untouched(r, row)
          /\ \A j \in (k + 1)..Len(run[r].members) :
               LET next == run[r].members[j] IN
               next.id \in run[r].logged \/ Outcome(r, next) = Expected(next, run[r].today)

\* a sweep skipped an inactive, expired, fully paid member without plan and then
\* updated the next member
C10_Witness ==
  \E r \in RunIds :
    /\ Done(r)
    /\ Len(run[r].members) = 2
    /\ LET row == run[r].members[1] IN
         /\ row.status = "inactive" /\ row.plan_id = NoPlan
         /\ Expired(row, run[r].today) /\ LatestIsSettled(row.payments)
         /\ Untouched(r, row)
    /\ Reported(r, run[r].members[2].id) # {}

\* C11: in the success response of a sweep, totalChecked is the number of members of
\* the caller's gym, totalUpdated is the length of updatedMembers, and updatedMembers
\* holds one entry, with a reason, for exactly the listed members whose status or
\* plan_end_date the sweep changed, with new_plan_end_date when the plan was extended.
C11_SummaryMatchesWrites ==
  \A r \in RunIds :
    Done(r) =>
      /\ run[r].response.success
      /\ run[r].response.totalChecked =
           Cardinality({m \in MemberIds : members[m].gym_id = run[r].gym_id})
      /\ run[r].response.totalUpdated = Len(run[r].updatedMembers)
      /\ \A k \in 1..Len(run[r].updatedMembers) :
           /\ \E row \in Rows(r) : row.id = run[r].updatedMembers[k].id
           /\ \A j \in 1..Len(run[r].updatedMembers) :
                run[r].updatedMembers[j].id = run[r].updatedMembers[k].id => j = k
      /\ \A row \in Rows(r) :
           /\ (Reported(r, row.id) # {}) <=>
                (\/ members[row.id].status # row.status
                 \/ members[row.id].plan_end_date # row.plan_end_date)
           /\ \A u \in Reported(r, row.id) :
                /\ u.reason # ""
                /\ IF members[row.id].plan_end_date # row.plan_end_date
                   THEN u.new_plan_end_date = members[row.id].plan_end_date
                   ELSE u.new_plan_end_date = <<>>

\* a sweep of two members changed one, failed on the other, and reported one of two
C11_Witness ==
  \E r \in RunIds :
    /\ Done(r)
    /\ run[r].response.totalChecked = 2 /\ run[r].response.totalUpdated = 1
    /\ run[r].logged # {}
    /\ \E row \in Rows(r) :
         /\ members[row.id].plan_end_date # row.plan_end_date
         /\ Reported(r, row.id) # {}

\* C17 (on sweeps without store errors): a member whose plan_end_date is today's date
\* or later keeps its plan_end_date, whatever its payments and status are.
C17_AsStated ==
  \A r \in RunIds :
    (Done(r) /\ Clean(r)) =>
      \A row \in Rows(r) :
        ~EndsBeforeToday(row, run[r].today) =>
          members[row.id].plan_end_date = row.plan_end_date

\* C13 (without store errors): when two status checks of one gym overlap, every member
\* of the gym ends with the status and plan_end_date that the sweep of the first
\* request alone gives it.
C13_AsStated ==
  \A a \in RunIds, b \in RunIds :
    (/\ a # b /\ Done(a) /\ Done(b) /\ Clean(a) /\ Clean(b)
     /\ ~run[a].overlaps /\ run[b].overlaps) =>
      \A row \in Rows(a) :
        /\ members[row.id].status = Expected(row, run[a].today).status
        /\ members[row.id].plan_end_date = Expected(row, run[a].today).plan_end_date

\* C12: a status check reads and writes only the caller's gym: the members it lists
\* (with their own payments) are of that gym, every member it changes is of that gym,
\* and every plan whose duration it takes belongs to that gym.
C12_TenantIsolation ==
  [][\A r \in RunIds :
       run'[r] # run[r] =>
         /\ \A k \in 1..Len(run'[r].members) :
              LET row == run'[r].members[k] IN
              /\ row.id \in DOMAIN members
              /\ members[row.id].gym_id = run'[r].gym_id
              /\ run'[r].members # run[r].members => row.payments = payments[row.id]
         /\ \A m \in DOMAIN members :
              members'[m] # members[m] => members[m].gym_id = run[r].gym_id
         /\ run'[r].pc = "extend" =>
              /\ plans[Current(r).plan_id].gym_id = run[r].gym_id
              /\ run'[r].duration_in_months = plans[Current(r).plan_id].duration_in_months
    ]_vars

\* a status check of gym g1 changed a member of g1 while gym g2 has an expired member
C12_Witness ==
  \E r \in RunIds :
    /\ Done(r) /\ run[r].gym_id = "g1" /\ run[r].updatedMembers # <<>>
    /\ \E m \in DOMAIN members :
         members[m].gym_id = "g2" /\ Expired(members[m], run[r].today)

\* C14: only the request of an authenticated admin makes a status check change a
\* member, and the member is of the caller's gym.
C14_AsStated ==
  [][(Busy(Serial) /\ members' # members) =>
       /\ user # NoUser /\ user.role = ROLES.ADMIN
       /\ \A m \in DOMAIN members :
            members'[m] # members[m] => members[m].gym_id = user.gym_id]_vars

\* C15: no step of a status check changes the payments table.
C15_PaymentsUntouched ==
  [][(\E r \in RunIds : run'[r] # run[r]) => payments' = payments]_vars

\* a status check extended a member on the strength of a payment that is still there
C15_Witness ==
  \E r \in RunIds :
    /\ Done(r)
    /\ \E row \in Rows(r) :
         /\ row.payments # <<>> /\ payments[row.id] = row.payments
         /\ \E u \in Reported(r, row.id) : u.new_plan_end_date # <<>>

\* C16: the status or plan_end_date of a member that is in the store changes only in
\* a step of a status check or of updateMember on that member; the payment, plan,
\* batch and attendance handlers (and createMember, deleteMember on other members)
\* leave both as they are.
C16_OnlySweepAndUpdateMember ==
  [][\A m \in DOMAIN members \cap DOMAIN members' :
       (\/ members'[m].status # members[m].status
        \/ members'[m].plan_end_date # members[m].plan_end_date) =>
         \/ Busy(Serial)
         \/ \E b \in MemberBodies, ok \in BOOLEAN, okPayment \in BOOLEAN :
              updateMember(m, b, ok, okPayment)]_vars

\* an inactive member has a settled plan payment on record and is still inactive
C16_Witness ==
  \E m \in DOMAIN members :
    /\ members[m].status = "inactive"
    /\ \E p \in NonAdmission(payments[m]) : p.due_amount = 0
    /\ \A r \in RunIds : run[r].pc = "idle"

\* C18 as stated: every member that createMember inserts has status active, a plan of
\* the creator's gym, and plan_end_date = join_date + the plan's duration in months.
C18_AsStated ==
  [][\A id \in MemberIds :
       (id \notin DOMAIN members /\ id \in DOMAIN members') =>
         /\ members'[id].status = "active"
         /\ members'[id].plan_id \in DOMAIN plans
         /\ plans[members'[id].plan_id].gym_id = members'[id].gym_id
         /\ members'[id].gym_id = user.gym_id
         /\ members'[id].plan_end_date =
              MonthsOn(members'[id].join_date,
                       plans[members'[id].plan_id].duration_in_months)]_vars

\* C18 amended: every member that createMember inserts has the status the request
\* gives, a plan of the creator's gym, and plan_end_date = join_date + the plan's
\* duration in months; a request whose plan is missing or of another gym inserts no
\* member.
C18_CreatedFromPlan ==
  [][\A id \in MemberIds :
       (id \notin DOMAIN members /\ id \in DOMAIN members') =>
         /\ \E b \in MemberBodies, ok \in BOOLEAN, okPayment \in BOOLEAN :
              createMember(id, b, ok, okPayment) /\ members'[id].status = b.status
         /\ members'[id].plan_id \in DOMAIN plans
         /\ plans[members'[id].plan_id].gym_id = members'[id].gym_id
         /\ members'[id].gym_id = user.gym_id
         /\ members'[id].plan_end_date =
              MonthsOn(members'[id].join_date,
                       plans[members'[id].plan_id].duration_in_months)]_vars

\* a member created inactive on 2024-01-31 with the one-month plan ends on 2024-03-02
C18_Witness ==
  /\ "m2" \in DOMAIN members
  /\ members["m2"].status = "inactive"
  /\ members["m2"].join_date = <<2024, 1, 31>>
  /\ members["m2"].plan_end_date = <<2024, 3, 2>>

\* totals and payments of either sign, among them the amounts of the requests
AmountValues == {0 - 1200, 0 - 1, 0, 1, 600, 1000, 1200}

\* C19: calculateDueAmount(total, paid) is total - paid when that is positive and 0
\* otherwise, and every payment row in the store has that due_amount.
C19_DueAmount ==
  /\ \A total \in AmountValues, paid \in AmountValues :
       /\ calculateDueAmount(total, paid) >= 0
       /\ calculateDueAmount(total, paid) = (IF total >= paid THEN total - paid ELSE 0)
  /\ \A m \in MemberIds : \A k \in 1..Len(payments[m]) :
       LET p == payments[m][k] IN
       /\ p.due_amount >= 0
       /\ p.due_amount = (IF p.total_amount >= p.amount_paid
                          THEN p.total_amount - p.amount_paid ELSE 0)

\* a plan payment that pays more than the total is on record with due_amount 0
C19_Witness ==
  \E m \in MemberIds : \E k \in 1..Len(payments[m]) :
    /\ payments[m][k].notes = "Plan"
    /\ payments[m][k].amount_paid > payments[m][k].total_amount
    /\ payments[m][k].due_amount = 0

\* C20: a step that changes the duration_in_months of a plan leaves the members table
\* as it is.
C20_UpdatePlanLeavesMembers ==
  [][(\E p \in DOMAIN plans \cap DOMAIN plans' :
        plans'[p].duration_in_months # plans[p].duration_in_months) =>
       members' = members]_vars

\* the plan of a member was changed to three months and the member's end date is
\* still the one of the one-month plan
C20_Witness ==
  \E m \in DOMAIN members :
    /\ members[m].plan_id = "p1" /\ plans["p1"].duration_in_months = 3
    /\ members[m].plan_end_date = <<2024, 1, 31>>
    /\ served > 0

\* C25: every step of a status check that changes a member's plan_end_date leaves that
\* member active in the same step, whatever happens to the rest of the sweep.
C25_ExtensionSetsActive ==
  [][\A m \in DOMAIN members \cap DOMAIN members' :
       (Busy(Serial) /\ members'[m].plan_end_date # members[m].plan_end_date) =>
         members'[m].status = "active"]_vars

\* a sweep extended a member that was listed inactive, a later update of the same sweep
\* failed, and the extended member is active
C25_Witness ==
  /\ run[Serial].pc = "done" /\ run[Serial].logged # {}
  /\ \E row \in Rows(Serial) :
       /\ row.status = "inactive" /\ members[row.id].status = "active"
       /\ members[row.id].plan_end_date # row.plan_end_date

\* C22 as stated: the status check that the scheduled task triggers for a gym lists the
\* members of that gym, and only a gym whose auto_inactive_members is set is swept.
C22_AsStated ==
  [][(cron.pc = "sent" /\ run[Serial].pc = "idle" /\ run'[Serial].pc # "idle") =>
       /\ run'[Serial].gym_id = CronGym
       /\ gym_settings[run'[Serial].gym_id]]_vars

Verified == reply'.n # reply.n

\* C21: every profile that verifyAndRegister has inserted has role admin, the id of an
\* auth user with its email, and gym_id equal to that id; no two profiles share a
\* gym_id.
C21_OwnGymPerRegistration ==
  /\ \A p \in profiles :
       /\ p.role = ROLES.ADMIN
       /\ p.gym_id = p.id
       /\ \E a \in auth.users : a.id = p.id /\ a.email = p.email
  /\ \A p \in profiles, q \in profiles : p # q => p.gym_id # q.gym_id

\* two registrations have succeeded
C21_Witness == Cardinality(profiles) = 2

\* C26: a verifyAndRegister request creates an auth user or a profile only when the
\* email has a stored entry, the OTP of the request equals the stored one and at most
\* 10 minutes have passed since it was stored; a request that comes later than that
\* is answered 'OTP expired' and removes the entry; a request for an email without
\* entry creates nothing.
C26_OtpWithinTenMinutes ==
  [][Verified =>
       LET email == reply'.email IN
       /\ (profiles' # profiles \/ auth' # auth) =>
            /\ email \in DOMAIN otpStore
            /\ reply'.otp = otpStore[email].otp
            /\ dateNow - otpStore[email].timestamp <= OtpTtl
       /\ (email \in DOMAIN otpStore /\ dateNow - otpStore[email].timestamp > OtpTtl) =>
            /\ reply'.status = 400 /\ reply'.message = "OTP expired"
            /\ email \notin DOMAIN otpStore'
       /\ email \notin DOMAIN otpStore =>
            /\ reply'.status = 400
            /\ profiles' = profiles /\ auth' = auth]_vars

\* a request with the stored OTP came 15 minutes after it was stored, was answered
\* 'OTP expired', and the entry is gone
C26_Witness ==
  /\ reply.message = "OTP expired"
  /\ reply.email \notin DOMAIN otpStore
  /\ profiles = {}

C28_AsStated ==
  \A a \in auth.users : \E p \in profiles : p.id = a.id

\* C24: in every state of the store each rate of the reports is a number (its
\* denominator is not 0), and it is 0 when what it divides by is 0: the collection
\* rates when nothing is billed, a member's attendance percentage when the member has
\* no attendance row, the overall percentage when there is no row.
C24_RatesGuarded ==
  /\ collectionRate[2] # 0
  /\ SumOf(SelectAllPayments, "total_amount") = 0 => collectionRate = Zero
  /\ \A g \in Gyms :
       /\ collection_rate(g)[2] # 0
       /\ SumOf(SelectPayments(g), "total_amount") = 0 => collection_rate(g) = Zero
       /\ overall_attendance_percentage(g)[2] # 0
       /\ SelectAttendance(g) = {} => overall_attendance_percentage(g) = Zero
       /\ \A m \in ActiveMembers(g) :
            /\ attendance_percentage(m, g)[2] # 0
            /\ (\A a \in SelectAttendance(g) : a.member_id # m) =>
                 attendance_percentage(m, g) = Zero

\* gym g1 has an active member that was present once, so its overall percentage is
\* 100, while nothing is billed in g1 and gym g2 has no attendance row
C24_Witness ==
  /\ overall_attendance_percentage("g1") = <<100, 1>>
  /\ SumOf(SelectPayments("g1"), "total_amount") = 0
  /\ collection_rate("g1") = Zero
  /\ overall_attendance_percentage("g2") = Zero

\* C29: under every interleaving of deletePlan, createMember and updateMember each
\* member's plan is a row of the plans table, and a deletePlan that was answered 200
\* left no member of the gym with that plan.
C29_NoDanglingPlan ==
  /\ \A m \in DOMAIN members :
       members[m].plan_id # NoPlan => members[m].plan_id \in DOMAIN plans
  /\ \A c \in CallIds :
       (At(c, "deletePlan", "done") /\ calls[c].response = 200
          /\ calls[c].id \notin DOMAIN plans) =>
         ~AssignedInGym(calls[c].id, calls[c].user.gym_id)

\* a deletePlan found no member with the plan, a member got the plan before the
\* delete, and the delete was refused
C29_Witness ==
  \E c \in CallIds :
    /\ At(c, "deletePlan", "done") /\ calls[c].found /\ calls[c].response = 400
    /\ PlanReferenced(calls[c].id)

\* C30: the attendance table has at most one row per member and date, whichever way
\* recordAttendance requests interleave, and each row has the gym of its member; a
\* request for a member of another gym is answered 404; a request that found the row
\* of the pair and is answered 200 has set that row's status and added no row.
C30_OneRowPerMemberAndDate ==
  /\ [](\A a \in attendance, b \in attendance :
          (a.member_id = b.member_id /\ a.date = b.date) => a = b)
  /\ [](\A a \in attendance : a.gym_id = members[a.member_id].gym_id)
  /\ [](\A c \in CallIds :
          (At(c, "recordAttendance", "done")
             /\ members[calls[c].id].gym_id # calls[c].user.gym_id) =>
            calls[c].response = 404)
  /\ [][\A c \in CallIds :
          (At(c, "recordAttendance", "write") /\ calls[c].found
             /\ calls'[c].pc = "done" /\ calls'[c].response = 200) =>
            /\ Cardinality(attendance') = Cardinality(attendance)
            /\ \E a \in attendance' :
                 /\ a.member_id = calls[c].id /\ a.date = ToISOString(now)
                 /\ a.status = calls[c].status]_vars

\* two requests for the same member and date both found no row; one inserted the
\* row and the other was refused by the store
C30_Witness ==
  \E c \in CallIds, d \in CallIds :
    /\ c # d /\ calls[c].id = calls[d].id
    /\ At(c, "recordAttendance", "done") /\ At(d, "recordAttendance", "done")
    /\ ~calls[c].found /\ ~calls[d].found
    /\ calls[c].response = 201 /\ calls[d].response = 400
    /\ Taken(calls[c].id, ToISOString(now))

====
